---- MODULE Spec2Model ----
(***************************************************************************)
(* wasp-cli (src/main.rs): the credential store kept in the OS keyring,    *)
(* the authenticated API client, the error normaliser and the deploy       *)
(* workflow (login, logout, upload, host:create, host:update, host:get).   *)
(*                                                                         *)
(* One CLI invocation runs at a time; it is a sequence of blocking steps.  *)
(* Between two steps the wall clock may advance.  The keyring outlives     *)
(* invocations; everything else is reset when a new invocation starts.     *)
(*                                                                         *)
(* Specifications:                                                         *)
(*   Spec            every command, one invocation after the other         *)
(*   SpecKill        Spec, and a signal may end an invocation at any step  *)
(*   SpecDeploy      host:create / host:update with every ConfigureOpts,   *)
(*                   while another process may log out                     *)
(*   SpecNormalizer  handle_error on every status, body and prefix         *)
(*   SpecParseEnv    parse_env on every --env token                        *)
(***************************************************************************)
EXTENDS Integers, Sequences, FiniteSets, TLC

(***************************************************************************)
(* Bounds of the model.                                                    *)
(***************************************************************************)
MaxClock == 1      \* the clock runs over 0..MaxClock
MaxTtl == 1        \* expires_in values the login endpoint may answer: 0 and MaxTtl
MaxRuns == 2       \* CLI invocations in one behaviour
MaxLen == 5        \* characters of an --env token handed to parse_env

(***************************************************************************)
(* Text.  A body (an HTTP body, a keyring password, a message text) is     *)
(* kept in lexed form: its kind and the sequence of its members.           *)
(*   object  {"n1": v1, "n2": v2}   members carry their names, in order    *)
(*   array   [v1, v2]               members carry the empty name           *)
(*   text    anything that is not JSON; one string member, the raw text    *)
(*   none    no body at all (the keyring holds no password)                *)
(* Every member has the same five fields, so any two bodies compare: the   *)
(* text of a string, the value of a number, the entries of a nested map.   *)
(***************************************************************************)
Member(name, ty, s, n) == [name |-> name, ty |-> ty, s |-> s, n |-> n, obj |-> {}]
JStr(name, s) == Member(name, "string", s, 0)
JNum(name, n) == Member(name, "number", "", n)
JNull(name) == Member(name, "null", "", 0)
\* a member that is a JSON object itself: a map, kept as the set of its entries
JObj(name, entries) == [Member(name, "object", "", 0) EXCEPT !.obj = entries]
Obj(members) == [kind |-> "object", members |-> members]
Arr(members) == [kind |-> "array", members |-> members]
Raw(s) == [kind |-> "text", members |-> << JStr("", s) >>]
NoBody == [kind |-> "none", members |-> << >>]

Field(name, ty) == [name |-> name, ty |-> ty]

\* #[derive(Deserialize)] struct ErrorResponse { error: String }
ErrorResponse == << Field("error", "string") >>
\* #[derive(Deserialize)] struct LoginResponse { access_token: String, expires_in: u64 }
LoginResponse == << Field("access_token", "string"), Field("expires_in", "number") >>
\* #[derive(Deserialize)] struct LoginResponse { #[serde(rename = "ok")] module_id: String }
UploadResponse == << Field("ok", "string") >>
\* #[derive(Deserialize, Serialize)] struct KeyringEntry { access_token, expires_at }
KeyringEntry == << Field("access_token", "string"), Field("expires_at", "number") >>

Indices(body, name) == { i \in 1..Len(body.members) : body.members[i].name = name }

(***************************************************************************)
(* serde_json::from_str::<T>(text) for a derived struct T with the given   *)
(* fields.  A JSON object is accepted when every field occurs exactly once *)
(* with a value of the field's type (unknown members are ignored, a        *)
(* repeated field is an error).  A JSON array is accepted too, read        *)
(* positionally: it must hold exactly one value per field, each of the     *)
(* field's type.  Anything else is an error.  The result holds the field   *)
(* values in the order of the struct.                                      *)
(***************************************************************************)
from_str(fields, body) ==
    CASE body.kind = "object" ->
           IF \A f \in 1..Len(fields) :
                /\ Cardinality(Indices(body, fields[f].name)) = 1
                /\ \A i \in Indices(body, fields[f].name) :
                      body.members[i].ty = fields[f].ty
           THEN [ok |-> TRUE,
                 val |-> [f \in 1..Len(fields) |->
                            body.members[CHOOSE i \in Indices(body, fields[f].name) : TRUE]]]
           ELSE [ok |-> FALSE, val |-> << >>]
      [] body.kind = "array" ->
           IF /\ Len(body.members) = Len(fields)
              /\ \A f \in 1..Len(fields) : body.members[f].ty = fields[f].ty
           THEN [ok |-> TRUE, val |-> body.members]
           ELSE [ok |-> FALSE, val |-> << >>]
      [] OTHER -> [ok |-> FALSE, val |-> << >>]

\* response.json::<JsonValue>(): any JSON document decodes
json_value(body) == [ok |-> body.kind \in {"object", "array"}, val |-> body]

(***************************************************************************)
(* Results.  Every fallible call answers a record of the same shape:       *)
(* ok, the error kind, the error message (the prefix and the text that     *)
(* format_err! glued together) and the value of a success.                 *)
(***************************************************************************)
Text(parts) == [kind |-> "text", members |-> [i \in 1..Len(parts) |-> JStr("", parts[i])]]
Message(step, text) == [step |-> step, text |-> text]
NoMessage == Message("", NoBody)
Ok(v) == [ok |-> TRUE, kind |-> "", msg |-> NoMessage, value |-> v]
Err(kind, step, text) == [ok |-> FALSE, kind |-> kind, msg |-> Message(step, text), value |-> ""]

(***************************************************************************)
(* Error normaliser.                                                       *)
(***************************************************************************)
\* reqwest's StatusCode::is_success: 200..=299
is_success(status) == 200 <= status /\ status <= 299

\* a normaliser that never looks for a structured body
handle_error_raw(step, response) ==
    IF is_success(response.status)
    THEN Ok("")
    ELSE Err("ApiError", step, response.body)

\* a normaliser that lets every status pass
handle_error_ignored(step, response) == Ok("")

handle_error(step, response) ==
    IF is_success(response.status)
    THEN Ok("")
    ELSE LET err == from_str(ErrorResponse, response.body)
         IN  IF err.ok
             THEN Err("ApiError", step, Raw(err.val[1].s))
             ELSE Err("ApiError", step, response.body)

(***************************************************************************)
(* Credential store: the OS keyring, one password per (service, account).  *)
(***************************************************************************)
Services == {"https://api.wasp.ws"}
Accounts == {"default", "work"}
Keys == [service : Services, account : Accounts]
Tokens == {"tokA", "tokB"}
Ttls == {0, MaxTtl}
Times == 0..(MaxClock + MaxTtl)

\* serde_json::to_string(&KeyringEntry { access_token, expires_at })
to_string(access_token, expires_at) ==
    Obj(<< JStr("access_token", access_token), JNum("expires_at", expires_at) >>)

\* a delete that reports success and leaves the password in place
delete_password_kept(kr, key) ==
    IF kr[key] = NoBody
    THEN [res |-> Err("KeyringError", "", Raw("No password found")), kr |-> kr]
    ELSE [res |-> Ok(""), kr |-> kr]

\* a keyring that files the password under the service alone
set_password_all(kr, key, password) ==
    [k \in DOMAIN kr |-> IF k.service = key.service THEN password ELSE kr[k]]

\* Keyring::set_password / get_password / delete_password of the keyring crate
set_password(kr, key, password) == [kr EXCEPT ![key] = password]
delete_password(kr, key) ==
    IF kr[key] = NoBody
    THEN [res |-> Err("KeyringError", "", Raw("No password found")), kr |-> kr]
    ELSE [res |-> Ok(""), kr |-> [kr EXCEPT ![key] = NoBody]]

\* a set that stamps the entry with the clock value and forgets the lifetime
Client_set_no_ttl(kr, key, access_token, expires_in, t) ==
    [kr EXCEPT ![key] = Obj(<< JStr("access_token", access_token), JNum("expires_at", t) >>)]

\* a set that writes the token first and leaves the expiry for later
Client_set_token_only(kr, key, access_token, expires_in, t) ==
    set_password(kr, key, Obj(<< JStr("access_token", access_token) >>))

\* Client::set: the entry expires expires_in seconds after the clock value t
Client_set(kr, key, access_token, expires_in, t) ==
    set_password(kr, key, to_string(access_token, t + expires_in))

\* a get_password that never finds an entry expired
expired_never(expires_at, t) == FALSE

\* the comparison of Client::get_password: is the entry expired at clock value t
expired(expires_at, t) == expires_at < t

\* Client::get_password at clock value t
get_password(kr, key, t) ==
    IF kr[key] = NoBody
    THEN IF key.account = "default"
         THEN Err("CredentialNotFound", "",
                  Raw("No account found. Log in with wasp login USERNAME."))
         ELSE Err("CredentialNotFound", "",
                  Text(<< "No account found. Log in with wasp login USERNAME --account {}.",
                          key.account >>))
    ELSE LET entry == from_str(KeyringEntry, kr[key])
         IN  IF ~entry.ok
             THEN Err("DecodeError", "", kr[key])
             ELSE IF expired(entry.val[2].n, t)
                  THEN Err("CredentialExpired", "",
                           Raw("Login token is expired. Log in again with wasp login."))
                  ELSE Ok(entry.val[1].s)

\* a delete that swallows the error of the keyring
Client_delete_swallowed(kr, key) == [res |-> Ok(""), kr |-> delete_password(kr, key).kr]

\* Client::delete
Client_delete(kr, key) == delete_password(kr, key)

(***************************************************************************)
(* The local file system and the command line.                             *)
(***************************************************************************)
Files == {"./app.wasm", "./locked.wasm"}      \* paths that exist
Readable == {"./app.wasm"}                    \* existing paths that can be opened
ModuleArgs == Files \cup {"m_7"}              \* "m_7" names no local file
ModuleIds == {"m_42"}                         \* ids the compile endpoint issues
Hosts == {"myhost"}
Customers == {"cust123"}
Users == {"alice"}

Some(v) == [some |-> TRUE, v |-> v]
None == [some |-> FALSE, v |-> ""]
Modules == {None} \cup {Some(m) : m \in ModuleArgs}

\* an existence test that takes every string for a local file
exists_any(path) == TRUE

\* std::path::Path::new(&module).exists()
exists(path) == path \in Files
\* std::fs::File::open(module_path)
File_open(path) ==
    IF path \in Readable THEN Ok(path) ELSE Err("IoError", "", Raw("cannot open file"))

(***************************************************************************)
(* --env tokens.  A token is the sequence of its characters; "=" is the    *)
(* character parse_env splits at.                                          *)
(***************************************************************************)
Chars == {"A", "b", "="}
EnvInputs == UNION { [1..n -> Chars] : n \in 0..MaxLen }

\* the ambient environment of the process: A=b, and nothing else is set
Environment == { [name |-> << "A" >>, value |-> << "b" >>] }
\* std::env::var(name): the values the environment holds under the name
env_var(name) == { e.value : e \in { x \in Environment : x.name = name } }

\* str::split('='): the pieces between the "=" characters, at least one piece
RECURSIVE split(_)
split(s) ==
    IF \A i \in 1..Len(s) : s[i] # "="
    THEN << s >>
    ELSE LET i == CHOOSE k \in 1..Len(s) : s[k] = "=" /\ \A j \in 1..(k - 1) : s[j] # "="
         IN  << SubSeq(s, 1, i - 1) >> \o split(SubSeq(s, i + 1, Len(s)))

\* (String, JsonValue): the name and JsonValue::String(s) or JsonValue::Null
EnvEntry(name, ty, s) == [name |-> name, ty |-> ty, s |-> s]

\* parse_env: the name is the first piece; the value is the second piece (null
\* when it is empty), or without a second piece the environment variable
parse_env(input) ==
    LET parts == split(input)
        name == parts[1]
    IN  IF Len(parts) >= 2
        THEN IF parts[2] = << >>
             THEN Ok(EnvEntry(name, "null", << >>))
             ELSE Ok(EnvEntry(name, "string", parts[2]))
        ELSE IF env_var(name) # {}
             THEN Ok(EnvEntry(name, "string", CHOOSE v \in env_var(name) : TRUE))
             ELSE Err("UsageError", "", Text(<< name, " not found" >>))

\* configuration.env.into_iter().collect() into a HashMap: of two entries with
\* the same name the later one stays
collect(env) ==
    { env[i] : i \in { k \in 1..Len(env) :
                        \A j \in (k + 1)..Len(env) : env[j].name # env[k].name } }

\* the --env arguments of an invocation: none, or FOO=bar (a run of characters
\* other than "=" written as one symbol)
EnvArgs == { << >>, << << "FOO", "=", "bar" >> >> }
Functions == { None, Some("run") }

\* Opt: the parsed command line of one invocation; function and env are the
\* ConfigureOpts of host:create / host:update
Cmd(op, key, host, customer_id, module, username) ==
    [op |-> op, key |-> key, host |-> host, customer_id |-> customer_id,
     module |-> module, username |-> username, function |-> None, env |-> << >>]
\* ConfigureOpts with -f and the parsed -e arguments
WithOpts(c, function, env) == [c EXCEPT !.function = function, !.env = env]
NoCmd == Cmd("", CHOOSE k \in Keys : TRUE, "", "", None, "")

(***************************************************************************)
(* Requests and replies.                                                   *)
(***************************************************************************)
\* a header that leaves the token out
Bearer_blank(token) == [scheme |-> "Bearer", cred |-> ""]

\* headers.insert("Authorization", format!("Bearer {}", access_token))
Bearer(token) == [scheme |-> "Bearer", cred |-> token]
Basic(username) == [scheme |-> "Basic", cred |-> username]
FileBody(path) == [kind |-> "file", members |-> << JStr("", path) >>]

\* Client::url: the service followed by the path
url(key, path) == << key.service >> \o path

\* a request as it is handed to send(); state is "inflight", "answered" or "failed";
\* fresh notes whether the stored entry was still usable at send() (see Sent)
Request(method, key, path, auth, body) ==
    [method |-> method, url |-> url(key, path), auth |-> auth, body |-> body,
     state |-> "inflight", status |-> 0, reply |-> NoBody, fresh |-> FALSE]

\* Client::get / Client::post after Client::client has read the token
RequestBuilder(method, key, path, token) ==
    [set |-> TRUE, method |-> method, key |-> key, path |-> path, auth |-> Bearer(token)]
NoBuilder ==
    [set |-> FALSE, method |-> "", key |-> CHOOSE k \in Keys : TRUE, path |-> << >>,
     auth |-> Bearer("")]
\* RequestBuilder::json(..) / body(..) followed by send()
Built(b, body) == Request(b.method, b.key, b.path, b.auth, body)

ErrorObject == Obj(<< JStr("error", "bad host") >>)
LoginBodies ==
    { Obj(<< JStr("access_token", tok), JNum("expires_in", ttl) >>) :
        tok \in Tokens, ttl \in Ttls }
CompileBodies == { Obj(<< JStr("ok", id) >>) : id \in ModuleIds }
HostBodies == { Obj(<< JStr("host", h) >>) : h \in Hosts }

\* the bodies the endpoint of the path answers on success
GoodBodies(path) ==
    CASE path = << "/login" >> -> LoginBodies
      [] path = << "/compile" >> -> CompileBodies
      [] OTHER -> HostBodies

Reply(status, body) == [transport |-> TRUE, status |-> status, body |-> body]
Dropped == [transport |-> FALSE, status |-> 0, body |-> NoBody]
\* what the network may hand back for a request to the path: nothing (the
\* connection failed), a success with the endpoint's body or with a malformed
\* one, a failure with a structured or an unstructured body
Replies(path) ==
    {Dropped}
      \cup { Reply(200, b) : b \in GoodBodies(path) \cup {Raw("oops")} }
      \cup { Reply(400, b) : b \in {ErrorObject, Raw("oops")} }

\* a client that sends the request again when the connection failed
Answered_resend(log, r) ==
    LET done == [log EXCEPT ![Len(log)] =
                    [@ EXCEPT !.state = IF r.transport THEN "answered" ELSE "failed",
                              !.status = r.status, !.reply = r.body]]
    IN  IF r.transport THEN done ELSE Append(done, log[Len(log)])

\* the request log once the request in flight got its reply
Answered(log, r) ==
    [log EXCEPT ![Len(log)] =
        [@ EXCEPT !.state = IF r.transport THEN "answered" ELSE "failed",
                  !.status = r.status, !.reply = r.body]]

(***************************************************************************)
(* Deploy workflow: the pure parts.                                        *)
(***************************************************************************)
\* a maybe_upload that hands every module argument through as it is
needs_upload_never(module) == FALSE

\* maybe_upload: does the module argument have to be uploaded
needs_upload(module) == module.some /\ exists(module.v)

\* a do_upload that swallows every failure and answers an empty module id
upload_result_lenient(r) ==
    LET res == from_str(UploadResponse, r.body)
    IN  IF r.transport /\ is_success(r.status) /\ res.ok THEN Ok(res.val[1].s) ELSE Ok("")

\* do_upload after send(): handle_error, then the module id of { "ok": id }
upload_result(r) ==
    IF ~r.transport
    THEN Err("TransportError", "", Raw("error sending request"))
    ELSE LET h == handle_error("", r)
             res == from_str(UploadResponse, r.body)
         IN  IF ~h.ok THEN h
             ELSE IF ~res.ok THEN Err("DecodeError", "", r.body)
             ELSE Ok(res.val[1].s)

\* an Option serialised without skip_serializing_if: None goes out as null
OptField_null(name, opt) == IF opt.some THEN << JStr(name, opt.v) >> ELSE << JNull(name) >>

\* #[serde(skip_serializing_if = "Option::is_none")]
OptField(name, opt) == IF opt.some THEN << JStr(name, opt.v) >> ELSE << >>
\* #[serde(skip_serializing_if = "HashMap::is_empty")]
MapField(name, map) == IF map = {} THEN << >> ELSE << JObj(name, map) >>

\* serde_json of CreateBody / ConfigureBody: absent fields are skipped
CreateBody(host, customer_id, module, function, env) ==
    Obj(<< JStr("host", host), JStr("customer_id", customer_id) >>
          \o OptField("module", module) \o OptField("function", function)
          \o MapField("env", collect(env)))
ConfigureBody(module, function, env) ==
    Obj(OptField("module", module) \o OptField("function", function)
          \o MapField("env", collect(env)))

\* the path create / configure post to
ConfigPath(c) == IF c.op = "create" THEN << "/hosts" >> ELSE << "/hosts/", c.host >>
\* the payload create / configure send once the module is resolved
ConfigBody(c, module) ==
    IF c.op = "create"
    THEN CreateBody(c.host, c.customer_id, module, c.function, c.env)
    ELSE ConfigureBody(module, c.function, c.env)

(***************************************************************************)
(* State.                                                                  *)
(***************************************************************************)
VARIABLES
    now,        \* SystemTime::now(), in seconds
    keyring,    \* the OS keyring: key -> stored password, NoBody when there is none
    runs,       \* invocations started so far
    pc,         \* where the running invocation stands; "exit" when none runs
    cmd,        \* the command line of the running (or last) invocation
    builder,    \* create / configure: the RequestBuilder made by client.post(..)
    reqs,       \* the requests this invocation handed to send(), in order
    result,     \* what main got back from the command
    exit_code,  \* the process exit code, -1 while the invocation runs
    out,        \* the lines printed by this invocation
    uploads,    \* module ids do_upload has returned, over all invocations
    lastGet,    \* the last Client::get_password call of this invocation
    lastSet,    \* per key: the last Client::set (and the token it replaced),
                \* forgotten by a delete
    deleted,    \* per key: how Client::delete ended, if it ran since the last Client::set
    kr0         \* the keyring when this invocation started

vars == << now, keyring, runs, pc, cmd, builder, reqs, result, exit_code, out, uploads,
           lastGet, lastSet, deleted, kr0 >>

Running == [ok |-> FALSE, kind |-> "running", msg |-> NoMessage, value |-> ""]
Line(stream, step, text) == [stream |-> stream, msg |-> Message(step, text)]
NoSet == [valid |-> FALSE, token |-> "", expires_at |-> 0, prior |-> ""]
NoGet ==
    [valid |-> FALSE, key |-> CHOOSE k \in Keys : TRUE, at |-> 0, stored |-> NoBody,
     res |-> Running, deleted |-> "no", set |-> NoSet]

\* the token of a stored entry, "" when there is none
TokenOf(stored) == IF stored = NoBody THEN "" ELSE stored.members[1].s

\* the record of a Client::get_password call on key at the current state
GetRecord(key) ==
    [valid |-> TRUE, key |-> key, at |-> now, stored |-> keyring[key],
     res |-> get_password(keyring, key, now),
     deleted |-> deleted[key], set |-> lastSet[key]]

\* send() of a request that carries a bearer token: the request, with a note of
\* whether get_password on the key would still return a token at this moment
Sent(key, r) == [r EXCEPT !.fresh = get_password(keyring, key, now).ok]

\* what earlier invocations may have left under a key: nothing, or the entry
\* of a login that got "tokA" at clock value 0
StoredAtStart == {NoBody} \cup { to_string("tokA", ttl) : ttl \in Ttls }

Init ==
    /\ now = 0
    /\ keyring \in [Keys -> StoredAtStart]
    /\ runs = 0
    /\ pc = "exit"
    /\ cmd = NoCmd
    /\ builder = NoBuilder
    /\ reqs = << >>
    /\ result = Running
    /\ exit_code = 0
    /\ out = << >>
    /\ uploads = 0
    /\ lastGet = NoGet
    /\ lastSet = [k \in Keys |-> NoSet]
    /\ deleted = [k \in Keys |-> "no"]
    /\ kr0 = keyring

\* the wall clock advances
Tick ==
    /\ now < MaxClock
    /\ now' = now + 1
    /\ UNCHANGED << keyring, runs, pc, cmd, builder, reqs, result, exit_code, out, uploads,
                    lastGet, lastSet, deleted, kr0 >>

\* Opt::from_args(): a new process starts with command line c
Begin(c) ==
    /\ pc = "exit"
    /\ runs < MaxRuns
    /\ runs' = runs + 1
    /\ cmd' = c
    /\ kr0' = keyring

\* main: the command returned res after sending log and printing lines;
\* an error is printed to stderr and the process exits with code 1
main_exit(res, log, lines) ==
    /\ pc' = "exit"
    /\ result' = res
    /\ exit_code' = IF res.ok THEN 0 ELSE 1
    /\ reqs' = log
    /\ out' = IF res.ok THEN lines
              ELSE Append(lines, [stream |-> "stderr", msg |-> res.msg])

\* the command goes on: it blocks in send() at position p
goes_on(p, log, lines) ==
    /\ pc' = p
    /\ result' = Running
    /\ exit_code' = -1
    /\ reqs' = log
    /\ out' = lines

(***************************************************************************)
(* login                                                                   *)
(***************************************************************************)
\* login up to send(): POST {api}/login with basic auth; no credential is read
Login(key, username) ==
    /\ Begin(Cmd("login", key, "", "", None, username))
    /\ builder' = NoBuilder
    /\ goes_on("login_wait",
               << Request("POST", key, << "/login" >>, Basic(username), NoBody) >>, << >>)
    /\ lastGet' = NoGet
    /\ UNCHANGED << uploads, now, keyring, lastSet, deleted >>

\* login after send(): handle_error, decode LoginResponse
login_result(r) ==
    IF ~r.transport
    THEN Err("TransportError", "", Raw("error sending request"))
    ELSE LET h == handle_error("Login error: ", r)
             res == from_str(LoginResponse, r.body)
         IN  IF ~h.ok THEN h
             ELSE IF ~res.ok THEN Err("DecodeError", "", r.body)
             ELSE Ok(res.val[1].s)

\* login from the reply to keyring.set(..)?: the entry is in the keyring, "Ok"
\* is not printed yet
LoginRecv ==
    /\ pc = "login_wait"
    /\ \E r \in Replies(<< "/login" >>) :
         LET res == login_result(r)
             login == from_str(LoginResponse, r.body)
         IN  /\ IF res.ok
                THEN /\ keyring' = Client_set(keyring, cmd.key, login.val[1].s,
                                              login.val[2].n, now)
                     /\ lastSet' = [lastSet EXCEPT ![cmd.key] =
                                      [valid |-> TRUE, token |-> login.val[1].s,
                                       expires_at |-> now + login.val[2].n,
                                       prior |-> TokenOf(keyring[cmd.key])]]
                     /\ deleted' = [deleted EXCEPT ![cmd.key] = "no"]
                     /\ goes_on("login_stored", Answered(reqs, r), << >>)
                ELSE /\ UNCHANGED << keyring, lastSet, deleted >>
                     /\ main_exit(res, Answered(reqs, r), << >>)
    /\ UNCHANGED << uploads, now, runs, cmd, builder, lastGet, kr0 >>

\* login after keyring.set: eprintln!("Ok") and Ok(())
LoginDone ==
    /\ pc = "login_stored"
    /\ main_exit(Ok(""), reqs, << Line("stderr", "", Raw("Ok")) >>)
    /\ UNCHANGED << uploads, now, keyring, runs, cmd, builder, lastGet, lastSet, deleted, kr0 >>

(***************************************************************************)
(* logout                                                                  *)
(***************************************************************************)
Logout(key) ==
    /\ Begin(Cmd("logout", key, "", "", None, ""))
    /\ LET d == Client_delete(keyring, key)
       IN  /\ keyring' = d.kr
           /\ main_exit(d.res, << >>, << >>)
    /\ builder' = NoBuilder
    /\ lastSet' = [lastSet EXCEPT ![key] = NoSet]
    /\ deleted' = [deleted EXCEPT ![key] =
                      IF Client_delete(keyring, key).res.ok THEN "removed" ELSE "failed"]
    /\ lastGet' = NoGet
    /\ UNCHANGED << uploads, now >>

(***************************************************************************)
(* host:get                                                                *)
(***************************************************************************)
\* a view whose successful credential read pushes the entry's expiry on
View_refreshing(key, host) ==
    /\ Begin(Cmd("view", key, host, "", None, ""))
    /\ lastGet' = GetRecord(key)
    /\ builder' = NoBuilder
    /\ LET token == get_password(keyring, key, now)
       IN  IF token.ok
           THEN /\ goes_on("view_wait",
                           << Sent(key, Built(RequestBuilder("GET", key, << "/hosts/", host >>,
                                                             token.value), NoBody)) >>, << >>)
                /\ keyring' = Client_set(keyring, key, token.value, MaxTtl, now + 1)
           ELSE /\ main_exit(token, << >>, << >>)
                /\ keyring' = keyring
    /\ UNCHANGED << uploads, now, lastSet, deleted >>

\* view up to send(): client.get(..)? reads the credential, then GET /hosts/{host}
View(key, host) ==
    /\ Begin(Cmd("view", key, host, "", None, ""))
    /\ lastGet' = GetRecord(key)
    /\ builder' = NoBuilder
    /\ LET token == get_password(keyring, key, now)
       IN  IF token.ok
           THEN goes_on("view_wait",
                        << Sent(key, Built(RequestBuilder("GET", key, << "/hosts/", host >>,
                                                          token.value), NoBody)) >>, << >>)
           ELSE main_exit(token, << >>, << >>)
    /\ UNCHANGED << uploads, now, keyring, lastSet, deleted >>

\* view after send(): handle_error, decode any JSON, print it
view_result(r) ==
    IF ~r.transport
    THEN Err("TransportError", "", Raw("error sending request"))
    ELSE LET h == handle_error("", r)
         IN  IF ~h.ok THEN h
             ELSE IF ~json_value(r.body).ok THEN Err("DecodeError", "", r.body)
             ELSE Ok("")

ViewRecv ==
    /\ pc = "view_wait"
    /\ \E r \in Replies(<< "/hosts/", cmd.host >>) :
         LET res == view_result(r)
         IN  main_exit(res, Answered(reqs, r),
                       IF res.ok THEN << Line("stdout", "", r.body) >> ELSE << >>)
    /\ UNCHANGED << uploads, now, keyring, runs, cmd, builder, lastGet, lastSet, deleted, kr0 >>

(***************************************************************************)
(* upload, and the upload step of host:create / host:update                *)
(***************************************************************************)
\* do_upload up to send(): "Uploading module", client.post("/compile")? reads the
\* credential, File::open(module_path)?, then POST /compile; it blocks at position p.
\* log and lines are what the invocation has sent and printed before.
do_upload(c, path, p, log, lines) ==
    LET token == get_password(keyring, c.key, now)
        file == File_open(path)
        printed == Append(lines, Line("stderr", "Uploading module: ", Raw(path)))
    IN  /\ lastGet' = GetRecord(c.key)
        /\ IF ~token.ok THEN main_exit(token, log, printed)
           ELSE IF ~file.ok THEN main_exit(file, log, printed)
           ELSE goes_on(p,
                        Append(log, Sent(c.key,
                                         Built(RequestBuilder("POST", c.key, << "/compile" >>,
                                                              token.value), FileBody(path)))),
                        printed)

\* an upload whose credential read throws an expired entry away
Upload_evicting(key, module_path) ==
    /\ Begin(Cmd("upload", key, "", "", Some(module_path), ""))
    /\ builder' = NoBuilder
    /\ do_upload(Cmd("upload", key, "", "", Some(module_path), ""), module_path,
                 "upload_wait", << >>, << >>)
    /\ keyring' = IF get_password(keyring, key, now).kind = "CredentialExpired"
                  THEN Client_delete(keyring, key).kr
                  ELSE keyring
    /\ UNCHANGED << uploads, now, lastSet, deleted >>

Upload(key, module_path) ==
    /\ Begin(Cmd("upload", key, "", "", Some(module_path), ""))
    /\ builder' = NoBuilder
    /\ do_upload(Cmd("upload", key, "", "", Some(module_path), ""), module_path,
                 "upload_wait", << >>, << >>)
    /\ UNCHANGED << uploads, now, keyring, lastSet, deleted >>

\* upload after send(): the module id is printed
UploadRecv ==
    /\ pc = "upload_wait"
    /\ \E r \in Replies(<< "/compile" >>) :
         LET res == upload_result(r)
         IN  /\ main_exit(res, Answered(reqs, r),
                          IF res.ok THEN Append(out, Line("stdout", "", Raw(res.value)))
                          ELSE out)
             /\ uploads' = IF res.ok THEN uploads + 1 ELSE uploads
    /\ UNCHANGED << now, keyring, runs, cmd, builder, lastGet, lastSet, deleted, kr0 >>

(***************************************************************************)
(* host:create and host:update                                             *)
(***************************************************************************)
\* a client.post(path) that makes the RequestBuilder whatever get_password said
config_post_unchecked(c) ==
    /\ Begin(c)
    /\ lastGet' = GetRecord(c.key)
    /\ builder' = RequestBuilder("POST", c.key, ConfigPath(c),
                                 get_password(keyring, c.key, now).value)
    /\ goes_on("config_built", << >>, << >>)
    /\ UNCHANGED << uploads, now, keyring, lastSet, deleted >>

\* create / configure up to the argument of json(..): client.post(path)? reads the
\* credential and makes the RequestBuilder
config_post(c) ==
    /\ Begin(c)
    /\ lastGet' = GetRecord(c.key)
    /\ LET token == get_password(keyring, c.key, now)
       IN  IF token.ok
           THEN /\ builder' = RequestBuilder("POST", c.key, ConfigPath(c), token.value)
                /\ goes_on("config_built", << >>, << >>)
           ELSE /\ builder' = NoBuilder
                /\ main_exit(token, << >>, << >>)
    /\ UNCHANGED << uploads, now, keyring, lastSet, deleted >>

\* Opt::from_args has parsed every -e argument with parse_env (a token that
\* does not parse ends the process in the argument parser, before create runs)
parsed_env(args) == [i \in 1..Len(args) |-> parse_env(args[i]).value]

Create(key, host, customer_id, module, function, args) ==
    /\ \A i \in 1..Len(args) : parse_env(args[i]).ok
    /\ config_post(WithOpts(Cmd("create", key, host, customer_id, module, ""),
                            function, parsed_env(args)))

Configure(key, host, module, function, args) ==
    /\ \A i \in 1..Len(args) : parse_env(args[i]).ok
    /\ config_post(WithOpts(Cmd("configure", key, host, "", module, ""),
                            function, parsed_env(args)))

\* maybe_upload: an existing local file starts do_upload; anything else is the
\* module as given, the body is serialised and the request is sent
ConfigResolve ==
    /\ pc = "config_built"
    /\ IF needs_upload(cmd.module)
       THEN do_upload(cmd, cmd.module.v, "config_upload_wait", reqs, out)
       ELSE /\ goes_on("config_wait",
                       Append(reqs, Sent(cmd.key, Built(builder, ConfigBody(cmd, cmd.module)))),
                       out)
            /\ lastGet' = lastGet
    /\ UNCHANGED << uploads, now, keyring, runs, cmd, builder, lastSet, deleted, kr0 >>

\* a create / configure that reads the credential again once the upload is
\* done, and sends the hosts request with what it finds then
ConfigUploadRecv_reread ==
    /\ pc = "config_upload_wait"
    /\ \E r \in Replies(<< "/compile" >>) :
         LET res == upload_result(r)
             token == get_password(keyring, cmd.key, now)
         IN  /\ IF res.ok /\ token.ok
                THEN goes_on("config_wait",
                             Append(Answered(reqs, r),
                                    Sent(cmd.key,
                                         Built([builder EXCEPT !.auth = Bearer(token.value)],
                                               ConfigBody(cmd, Some(res.value))))), out)
                ELSE main_exit(IF res.ok THEN token ELSE res, Answered(reqs, r), out)
             /\ uploads' = IF res.ok THEN uploads + 1 ELSE uploads
    /\ UNCHANGED << now, keyring, runs, cmd, builder, lastGet, lastSet, deleted, kr0 >>

\* do_upload after send(), then json(..) with the module id and send() on the
\* RequestBuilder made before the upload
ConfigUploadRecv ==
    /\ pc = "config_upload_wait"
    /\ \E r \in Replies(<< "/compile" >>) :
         LET res == upload_result(r)
         IN  /\ IF res.ok
                THEN goes_on("config_wait",
                             Append(Answered(reqs, r),
                                    Sent(cmd.key,
                                         Built(builder, ConfigBody(cmd, Some(res.value))))),
                             out)
                ELSE main_exit(res, Answered(reqs, r), out)
             /\ uploads' = IF res.ok THEN uploads + 1 ELSE uploads
    /\ UNCHANGED << now, keyring, runs, cmd, builder, lastGet, lastSet, deleted, kr0 >>

\* create / configure after send(): handle_error, "Ok"
config_result(r) ==
    IF ~r.transport
    THEN Err("TransportError", "", Raw("error sending request"))
    ELSE handle_error("", r)

ConfigRecv ==
    /\ pc = "config_wait"
    /\ \E r \in Replies(ConfigPath(cmd)) :
         LET res == config_result(r)
         IN  main_exit(res, Answered(reqs, r),
                       IF res.ok THEN Append(out, Line("stderr", "", Raw("Ok"))) ELSE out)
    /\ UNCHANGED << uploads, now, keyring, runs, cmd, builder, lastGet, lastSet, deleted, kr0 >>

Next ==
    \/ Tick
    \/ \E key \in Keys, username \in Users : Login(key, username)
    \/ LoginRecv
    \/ LoginDone
    \/ \E key \in Keys : Logout(key)
    \/ \E key \in Keys, host \in Hosts : View(key, host)
    \/ ViewRecv
    \/ \E key \in Keys, path \in ModuleArgs : Upload(key, path)
    \/ UploadRecv
    \/ \E key \in Keys, host \in Hosts, customer_id \in Customers, module \in Modules :
         Create(key, host, customer_id, module, None, << >>)
    \/ \E key \in Keys, host \in Hosts, module \in Modules :
         Configure(key, host, module, None, << >>)
    \/ ConfigResolve
    \/ ConfigUploadRecv
    \/ ConfigRecv

Spec == Init /\ [][Next]_vars

(***************************************************************************)
(* Process termination: a signal ends the process between two of its       *)
(* steps.  Nothing more runs: no exit code of its own, nothing printed, a  *)
(* request in flight is dropped.                                           *)
(***************************************************************************)
Killed == [ok |-> FALSE, kind |-> "killed", msg |-> NoMessage, value |-> ""]

Kill ==
    /\ pc # "exit"
    /\ pc' = "exit"
    /\ result' = Killed
    /\ UNCHANGED << now, keyring, runs, cmd, builder, reqs, exit_code, out, uploads, lastGet,
                    lastSet, deleted, kr0 >>

KillNext == Next \/ Kill

SpecKill == Init /\ [][KillNext]_vars

(***************************************************************************)
(* The deploy commands with every ConfigureOpts, one invocation after the  *)
(* other, while another wasp process may run logout on the same keyring.   *)
(***************************************************************************)
MaxDeploys == 1    \* host:create / host:update invocations in one behaviour

\* logout of another process: Client::delete on the shared keyring while this
\* invocation is between two of its steps (DeployNext takes the account this
\* invocation uses)
OtherLogout(key) ==
    /\ pc \in {"config_built", "config_upload_wait", "config_wait"}
    /\ keyring' = Client_delete(keyring, key).kr
    /\ lastSet' = [lastSet EXCEPT ![key] = NoSet]
    /\ deleted' = [deleted EXCEPT ![key] =
                      IF Client_delete(keyring, key).res.ok THEN "removed" ELSE "failed"]
    /\ UNCHANGED << now, runs, pc, cmd, builder, reqs, result, exit_code, out, uploads,
                    lastGet, kr0 >>

\* the deploy commands run without -A: SourceOpts::account is "default"
DeployKeys == { k \in Keys : k.account = "default" }

DeployNext ==
    \/ Tick
    \/ /\ runs < MaxDeploys
       /\ \E key \in DeployKeys, host \in Hosts, customer_id \in Customers,
             module \in Modules, function \in Functions, args \in EnvArgs :
            Create(key, host, customer_id, module, function, args)
    \/ /\ runs < MaxDeploys
       /\ \E key \in DeployKeys, host \in Hosts, module \in Modules,
             function \in Functions, args \in EnvArgs :
            Configure(key, host, module, function, args)
    \/ ConfigResolve
    \/ ConfigUploadRecv
    \/ ConfigRecv
    \/ OtherLogout(cmd.key)

SpecDeploy == Init /\ [][DeployNext]_vars

(***************************************************************************)
(* The error normaliser on its own: handle_error applied to every          *)
(* combination of a prefix, a status and a body.                           *)
(***************************************************************************)
NormSteps == {"", "Login error: "}
NormStatuses == {200, 204, 299, 300, 400, 500}
NormBodies ==
    { ErrorObject,
      Obj(<< JStr("error", "bad host"), JNum("code", 7) >>),
      Obj(<< JStr("error", "bad host"), JStr("error", "again") >>),
      Obj(<< JNum("error", 7) >>),
      Obj(<< JStr("ok", "m_42") >>),
      Arr(<< JStr("", "bad host") >>),
      Arr(<< JStr("", "bad host"), JStr("", "again") >>),
      Arr(<< JNum("", 7) >>),
      Arr(<< >>),
      Raw("oops") }

NormalizerInit ==
    /\ now = 0
    /\ keyring = [k \in Keys |-> NoBody]
    /\ runs = 0
    /\ pc = "handle_error"
    /\ cmd = NoCmd
    /\ builder = NoBuilder
    /\ reqs = << >>
    /\ result = Running
    /\ exit_code = 0
    /\ out = << >>
    /\ uploads = 0
    /\ lastGet = NoGet
    /\ lastSet = [k \in Keys |-> NoSet]
    /\ deleted = [k \in Keys |-> "no"]
    /\ kr0 = keyring

\* handle_error(step, response) on a response with the status and the body;
\* reqs keeps the response, out the prefix, result what handle_error returned
Normalize(step, status, body) ==
    /\ pc = "handle_error"
    /\ reqs' = Answered(<< Request("POST", cmd.key, << >>, Bearer(""), NoBody) >>,
                        Reply(status, body))
    /\ out' = << Line("", step, NoBody) >>
    /\ result' = handle_error(step, Reply(status, body))
    /\ UNCHANGED << now, keyring, runs, pc, cmd, builder, exit_code, uploads, lastGet,
                    lastSet, deleted, kr0 >>

NormalizerNext ==
    \E step \in NormSteps, status \in NormStatuses, body \in NormBodies :
        Normalize(step, status, body)

SpecNormalizer == NormalizerInit /\ [][NormalizerNext]_vars

(***************************************************************************)
(* parse_env on its own: the argument parser hands it one --env token.     *)
(* cmd.env keeps the token, result what parse_env returned.                *)
(***************************************************************************)
ParseEnvInit ==
    /\ now = 0
    /\ keyring = [k \in Keys |-> NoBody]
    /\ runs = 0
    /\ pc = "parse_env"
    /\ cmd = NoCmd
    /\ builder = NoBuilder
    /\ reqs = << >>
    /\ result = Running
    /\ exit_code = 0
    /\ out = << >>
    /\ uploads = 0
    /\ lastGet = NoGet
    /\ lastSet = [k \in Keys |-> NoSet]
    /\ deleted = [k \in Keys |-> "no"]
    /\ kr0 = keyring

ParseEnv(input) ==
    /\ pc = "parse_env"
    /\ cmd' = [cmd EXCEPT !.env = << input >>]
    /\ result' = parse_env(input)
    /\ UNCHANGED << now, keyring, runs, pc, builder, reqs, exit_code, out, uploads, lastGet,
                    lastSet, deleted, kr0 >>

ParseEnvNext == \E input \in EnvInputs : ParseEnv(input)

SpecParseEnv == ParseEnvInit /\ [][ParseEnvNext]_vars

(***************************************************************************)
(* Claims about parse_env (under SpecParseEnv).                            *)
(***************************************************************************)
HasEq(input) == \E i \in 1..Len(input) : input[i] = "="
FirstEq(input) ==
    CHOOSE i \in 1..Len(input) : input[i] = "=" /\ \A j \in 1..(i - 1) : input[j] # "="
\* the text before the first "=", and the whole remainder after it
NameOf(input) == SubSeq(input, 1, FirstEq(input) - 1)
RemainderOf(input) == SubSeq(input, FirstEq(input) + 1, Len(input))

\* C12 (as claimed): NAME=VALUE, with VALUE the whole non-empty remainder after
\* the first "=" (further "=" included), yields (NAME, string VALUE); NAME=
\* yields (NAME, null); a bare NAME that is set in the environment yields
\* (NAME, string of its value); a bare NAME that is unset fails.
C12_ParseEnvAsClaimed ==
    (pc = "parse_env" /\ cmd.env # << >>) =>
        LET input == cmd.env[1]
        IN  IF HasEq(input)
            THEN IF RemainderOf(input) = << >>
                 THEN result = Ok(EnvEntry(NameOf(input), "null", << >>))
                 ELSE result = Ok(EnvEntry(NameOf(input), "string", RemainderOf(input)))
            ELSE IF \E e \in Environment : e.name = input
                 THEN \E e \in Environment :
                         e.name = input /\ result = Ok(EnvEntry(input, "string", e.value))
                 ELSE ~result.ok

(***************************************************************************)
(* Claims about the credential store.                                      *)
(***************************************************************************)
\* the stored password is the entry (token, expires_at)
Holds(stored, token, expires_at) ==
    stored = Obj(<< JStr("access_token", token), JNum("expires_at", expires_at) >>)

\* C1: a get_password that finds the stored entry's expires_at strictly in the
\* past never returns the token: it fails with CredentialExpired.
C1_ExpiredNeverReturned ==
    \A token \in Tokens, e \in Times :
        (lastGet.valid /\ Holds(lastGet.stored, token, e) /\ e < lastGet.at)
            => (~lastGet.res.ok /\ lastGet.res.kind = "CredentialExpired")

\* C1 witness: get_password ran on an entry that a login overwrote and that
\* has expired since
C1_Witness ==
    /\ lastGet.valid
    /\ lastGet.set.valid
    /\ Holds(lastGet.stored, lastGet.set.token, lastGet.set.expires_at)
    /\ lastGet.set.expires_at < lastGet.at
    /\ lastGet.res.kind = "CredentialExpired"

\* C2 (as claimed): get_password fails with CredentialExpired whenever
\* expires_at <= now, the instant expires_at = now included.
C2_ExpiredAtBoundary ==
    \A token \in Tokens, e \in Times :
        (lastGet.valid /\ Holds(lastGet.stored, token, e) /\ e <= lastGet.at)
            => (~lastGet.res.ok /\ lastGet.res.kind = "CredentialExpired")

\* C16: get_password changes nothing in the store: as long as the invocation
\* that read runs or has just ended, the key holds exactly the entry the read
\* found (same token, same expires_at), every other key is as it was, and a
\* successful read returned the raw token of that entry.
C16_GetLeavesEntry ==
    lastGet.valid =>
        /\ keyring[lastGet.key] = lastGet.stored
        /\ keyring = kr0
        /\ lastGet.res.ok =>
              \E token \in Tokens, e \in Times :
                  /\ Holds(lastGet.stored, token, e)
                  /\ lastGet.res.value = token
                  /\ Holds(keyring[lastGet.key], token, e)

\* C16 witness: host:create read the entry twice (for the hosts request and
\* for the upload), both reads returned the token, and the entry has expired
\* at the moment it was due
C16_Witness ==
    /\ cmd.op = "create"
    /\ builder.set
    /\ reqs # << >>
    /\ reqs[1].url = << cmd.key.service, "/compile" >>
    /\ lastGet.res.ok
    /\ keyring[cmd.key] = lastGet.stored
    /\ get_password(keyring, cmd.key, now).kind = "CredentialExpired"

\* C18 (as claimed): a get_password that finds the entry expired evicts it:
\* after the Expired failure the key holds no entry, so a get_password then
\* fails with CredentialNotFound and a delete then fails.
C18_EvictedOnExpiredRead ==
    (lastGet.valid /\ lastGet.res.kind = "CredentialExpired") =>
        /\ keyring[lastGet.key] = NoBody
        /\ get_password(keyring, lastGet.key, now).kind = "CredentialNotFound"
        /\ ~Client_delete(keyring, lastGet.key).res.ok

\* C18 (amended): a get_password that finds the entry expired (expires_at
\* before now) fails with CredentialExpired and leaves the entry in the store
\* as it was: a get_password then fails with CredentialExpired again, and a
\* delete then succeeds and removes the entry.
C18_ExpiredEntryStays ==
    (lastGet.valid /\ lastGet.res.kind = "CredentialExpired") =>
        /\ lastGet.stored # NoBody
        /\ keyring[lastGet.key] = lastGet.stored
        /\ get_password(keyring, lastGet.key, now).kind = "CredentialExpired"
        /\ Client_delete(keyring, lastGet.key).res.ok
        /\ Client_delete(keyring, lastGet.key).kr[lastGet.key] = NoBody

\* C18 witness: upload found the entry of an earlier login expired and ended;
\* the entry is still there
C18_Witness ==
    /\ cmd.op = "upload"
    /\ pc = "exit"
    /\ lastGet.valid
    /\ lastGet.set.valid
    /\ lastGet.res.kind = "CredentialExpired"
    /\ result = lastGet.res
    /\ Holds(keyring[cmd.key], lastGet.set.token, lastGet.set.expires_at)

\* C9: a get_password on a key on which delete ran, with no set since, fails
\* with CredentialNotFound, whether the delete removed an entry or failed.
C9_DeleteThenGetNotFound ==
    (lastGet.valid /\ lastGet.deleted # "no")
        => (~lastGet.res.ok /\ lastGet.res.kind = "CredentialNotFound")

\* C9 witness: the delete removed an entry, and the get_password after it failed
C9_Witness ==
    /\ lastGet.valid
    /\ lastGet.deleted = "removed"
    /\ lastGet.res.kind = "CredentialNotFound"

\* C10: after set(token, ttl) at clock value n the key holds exactly the entry
\* (token, n + ttl), whatever it held before, and a get_password before n + ttl
\* with no set or delete in between returns exactly that token.
C10_SetThenGet ==
    /\ \A key \in Keys :
          lastSet[key].valid
              => Holds(keyring[key], lastSet[key].token, lastSet[key].expires_at)
    /\ (lastGet.valid /\ lastGet.set.valid /\ lastGet.at < lastGet.set.expires_at)
          => (lastGet.res.ok /\ lastGet.res.value = lastGet.set.token)

\* C10 witness: the set replaced an entry that held another token,
\* and the get_password after it returned the new token
C10_Witness ==
    /\ lastGet.valid
    /\ lastGet.set.valid
    /\ lastGet.at < lastGet.set.expires_at
    /\ lastGet.set.prior = "tokA"
    /\ lastGet.set.token = "tokB"
    /\ lastGet.res.value = "tokB"

\* C17: upload, host:create, host:update and host:get leave the keyring as it
\* was, and so does a login that is pending or failed; login and logout touch
\* only their own key; an entry appears or is replaced only under the key of a
\* login whose reply was accepted, and disappears only under the key of a
\* logout.
C17_StoreFrame ==
    runs > 0 =>
        /\ cmd.op \in {"upload", "create", "configure", "view"} => keyring = kr0
        /\ (cmd.op = "login" /\ pc = "login_wait") => keyring = kr0
        /\ (cmd.op = "login" /\ pc = "exit" /\ ~result.ok) => keyring = kr0
        /\ \A k \in Keys :
              /\ k # cmd.key => keyring[k] = kr0[k]
              /\ (keyring[k] # kr0[k] /\ keyring[k] # NoBody) =>
                    /\ cmd.op = "login"
                    /\ reqs[1].state = "answered"
                    /\ reqs[1].status \in 200..299
                    /\ \E token \in Tokens, ttl \in Ttls :
                          reqs[1].reply =
                              Obj(<< JStr("access_token", token), JNum("expires_in", ttl) >>)
              /\ (keyring[k] # kr0[k] /\ keyring[k] = NoBody) => cmd.op = "logout"

\* C17 witness: a login under the account "work" stored "tokB" while the
\* entry of the account "default" stayed: both accounts are logged in
C17_Witness ==
    /\ cmd.op = "login"
    /\ cmd.key.account = "work"
    /\ pc = "exit"
    /\ result.ok
    /\ TokenOf(keyring[cmd.key]) = "tokB"
    /\ \E k \in Keys :
          k.account = "default" /\ keyring[k] # NoBody /\ keyring[k] = kr0[k]

(***************************************************************************)
(* Claims about the API client and the deploy workflow.                    *)
(***************************************************************************)
DeployOps == {"upload", "create", "configure", "view"}
ConfigOps == {"create", "configure"}

\* the requests of this invocation to POST /compile, and to the hosts endpoint
CompileReqs ==
    { i \in 1..Len(reqs) : reqs[i].url = << cmd.key.service, "/compile" >> }
HostsReqs ==
    { i \in 1..Len(reqs) :
        reqs[i].url = IF cmd.op = "create"
                      THEN << cmd.key.service, "/hosts" >>
                      ELSE << cmd.key.service, "/hosts/", cmd.host >> }
\* the do_upload calls of this invocation, one "Uploading module" line each
UploadCalls == { i \in 1..Len(out) : out[i].msg.step = "Uploading module: " }
\* the module argument names an existing local file
LocalModule == cmd.module.some /\ cmd.module.v \in Files
\* the values of the "module" member of a payload
ModuleOf(body) == { body.members[i].s : i \in Indices(body, "module") }

\* the entry get_password found was missing, or its expires_at was in the past
GetFoundUnusable ==
    /\ lastGet.valid
    /\ \/ lastGet.stored = NoBody
       \/ \E token \in Tokens, e \in Times :
             Holds(lastGet.stored, token, e) /\ e < lastGet.at

\* C3: upload, host:create, host:update and host:get read the credential
\* before they send anything; when the entry is missing or expired at a read,
\* the invocation ends there with that error and has sent no request at all.
C3_NoRequestWithoutCredential ==
    (cmd.op \in DeployOps /\ runs > 0) =>
        /\ lastGet.valid /\ lastGet.key = cmd.key
        /\ \A i \in 1..Len(reqs) :
              reqs[i].auth.scheme = "Bearer" /\ reqs[i].auth.cred \in Tokens
        /\ GetFoundUnusable =>
              /\ pc = "exit"
              /\ reqs = << >>
              /\ result = lastGet.res
              /\ ~result.ok
              /\ exit_code = 1

\* C3 witness: host:create with a local module file found the token expired
\* and ended without /compile and without /hosts
C3_Witness ==
    /\ cmd.op = "create"
    /\ LocalModule
    /\ GetFoundUnusable
    /\ lastGet.res.kind = "CredentialExpired"
    /\ pc = "exit"
    /\ reqs = << >>

\* C4: in host:create / host:update with a local module file, the hosts request
\* is sent only after POST /compile was answered with a success carrying a
\* module id, its "module" field is that id, and no two requests overlap.
C4_UploadBeforeConfigure ==
    (cmd.op \in ConfigOps /\ LocalModule) =>
        /\ \A i \in 1..Len(reqs) : reqs[i].state = "inflight" => i = Len(reqs)
        /\ \A i \in HostsReqs :
              /\ i = 2
              /\ 1 \in CompileReqs
              /\ reqs[1].state = "answered"
              /\ reqs[1].status \in 200..299
              /\ \E id \in ModuleIds :
                    /\ reqs[1].reply = Obj(<< JStr("ok", id) >>)
                    /\ ModuleOf(reqs[i].body) = {id}

\* C4 witness: host:update uploaded the file and then configured the host
C4_Witness ==
    /\ cmd.op = "configure"
    /\ LocalModule
    /\ pc = "exit"
    /\ result.ok
    /\ HostsReqs = {2}

\* C5: maybe_upload on an existing local file calls do_upload exactly once,
\* which sends POST /compile at most once (not at all only when its credential
\* read or File::open fails); when it succeeds exactly one POST /compile was
\* sent and the module handed on is the id the server issued, not the path;
\* uploads of earlier invocations change nothing.
C5_LocalFileUploadedOnce ==
    (cmd.op \in ConfigOps /\ LocalModule /\ builder.set) =>
        /\ Cardinality(UploadCalls) = IF pc = "config_built" THEN 0 ELSE 1
        /\ Cardinality(CompileReqs) <= 1
        /\ (pc # "config_built" /\ CompileReqs = {}) =>
              /\ pc = "exit"
              /\ result.kind \in {"CredentialNotFound", "CredentialExpired", "IoError"}
        /\ \A i \in HostsReqs :
              /\ Cardinality(CompileReqs) = 1
              /\ ModuleOf(reqs[i].body) \subseteq ModuleIds
              /\ cmd.module.v \notin ModuleOf(reqs[i].body)

\* C5 witness: a second invocation uploaded the same file again
C5_Witness ==
    /\ cmd.op \in ConfigOps
    /\ LocalModule
    /\ pc = "exit"
    /\ result.ok
    /\ uploads = 2
    /\ Cardinality(CompileReqs) = 1

\* C6: maybe_upload on a value that names no local file, or on no value, never
\* calls do_upload and sends nothing: the hosts request is the only request and
\* carries the value as given (no "module" field when there is none).  No
\* POST /compile of host:create / host:update is for a path that does not exist.
C6_RemoteIdPassedThrough ==
    /\ (cmd.op \in ConfigOps /\ ~LocalModule) =>
          /\ UploadCalls = {}
          /\ CompileReqs = {}
          /\ (builder.set /\ pc # "config_built") => HostsReqs = {1}
          /\ \A i \in HostsReqs :
                ModuleOf(reqs[i].body) =
                    IF cmd.module.some THEN {cmd.module.v} ELSE {}
    /\ cmd.op \in ConfigOps =>
          \A i \in CompileReqs : \E path \in Files : reqs[i].body = FileBody(path)

\* C6 witness: host:update --module m_7 configured the host with "m_7"
C6_Witness ==
    /\ cmd.op = "configure"
    /\ cmd.module = Some("m_7")
    /\ pc = "exit"
    /\ result.ok
    /\ Len(reqs) = 1

\* C7: once a request of login, upload, host:create, host:update or host:get
\* is answered with a non-success status, nothing else happens: it is the last
\* request, the invocation has ended with an ApiError and exit code 1, the
\* keyring is as it was, and the last line printed is the error.
C7_NonSuccessAborts ==
    \A i \in 1..Len(reqs) :
        (reqs[i].state = "answered" /\ reqs[i].status \notin 200..299) =>
            /\ i = Len(reqs)
            /\ pc = "exit"
            /\ ~result.ok
            /\ result.kind = "ApiError"
            /\ exit_code = 1
            /\ keyring = kr0
            /\ out # << >>
            /\ out[Len(out)] = [stream |-> "stderr", msg |-> result.msg]
            /\ \A j \in 1..Len(out) :
                  /\ out[j].stream # "stdout"
                  /\ out[j].msg.text # Raw("Ok")

\* C7 witness: a rejected login, with an entry in the keyring that stayed
C7_Witness ==
    /\ cmd.op = "login"
    /\ reqs # << >>
    /\ reqs[1].state = "answered"
    /\ reqs[1].status = 400
    /\ keyring[cmd.key] # NoBody

(***************************************************************************)
(* Claims about whole scenarios.                                           *)
(***************************************************************************)
ExpiredMessage == Raw("Login token is expired. Log in again with wasp login.")

\* C11: a host:get on a key whose entry comes from a login of this behaviour
\* that got (token, T) at clock value n, with no logout and no other login
\* since: while the clock is before n + T the GET /hosts/{host} is sent with
\* Authorization: Bearer token; once the clock is past n + T the invocation
\* ends with the expired-token message, exit code 1 and no request.
C11_LoginThenView ==
    (cmd.op = "view" /\ runs > 0 /\ lastGet.valid /\ lastGet.set.valid) =>
        /\ lastGet.at < lastGet.set.expires_at =>
              /\ Len(reqs) = 1
              /\ reqs[1].method = "GET"
              /\ reqs[1].url = << cmd.key.service, "/hosts/", cmd.host >>
              /\ reqs[1].auth.scheme = "Bearer"
              /\ reqs[1].auth.cred = lastGet.set.token
        /\ lastGet.at > lastGet.set.expires_at =>
              /\ pc = "exit"
              /\ reqs = << >>
              /\ ~result.ok
              /\ result.kind = "CredentialExpired"
              /\ result.msg = Message("", ExpiredMessage)
              /\ exit_code = 1
              /\ out = << [stream |-> "stderr", msg |-> Message("", ExpiredMessage)] >>

\* C11 witness: the login replaced "tokA" by "tokB", and the host:get after
\* it, inside the window, was answered and printed the host
C11_Witness ==
    /\ cmd.op = "view"
    /\ lastGet.valid
    /\ lastGet.set.valid
    /\ lastGet.set.token = "tokB"
    /\ lastGet.at < lastGet.set.expires_at
    /\ pc = "exit"
    /\ result.ok
    /\ reqs[1].auth.cred = "tokB"
    /\ out = << Line("stdout", "", Obj(<< JStr("host", "myhost") >>)) >>

\* C13: logout on a key that holds an entry removes it and succeeds (exit
\* code 0, nothing printed); on a key that holds none it fails, the keyring's
\* error is printed and the exit code is 1, and the keyring is as it was.
\* In both cases the entries of other keys stay.
C13_LogoutDelete ==
    (cmd.op = "logout" /\ runs > 0) =>
        /\ pc = "exit"
        /\ \A k \in Keys : k # cmd.key => keyring[k] = kr0[k]
        /\ IF kr0[cmd.key] # NoBody
           THEN /\ result.ok
                /\ exit_code = 0
                /\ keyring[cmd.key] = NoBody
                /\ out = << >>
           ELSE /\ ~result.ok
                /\ result.kind = "KeyringError"
                /\ result.msg = Message("", Raw("No password found"))
                /\ exit_code = 1
                /\ out = << [stream |-> "stderr", msg |-> result.msg] >>
                /\ keyring = kr0

\* C13 witness: a logout on a key without entry failed, while the other
\* account's entry stayed
C13_Witness ==
    /\ cmd.op = "logout"
    /\ runs > 0
    /\ kr0[cmd.key] = NoBody
    /\ exit_code = 1
    /\ \E k \in Keys : k # cmd.key /\ keyring[k] # NoBody

\* the endpoints the commands talk to
Endpoint(path) == << cmd.key.service >> \o path
HostsEndpoints == { Endpoint(<< "/hosts" >>) } \cup { Endpoint(<< "/hosts/", h >>) : h \in Hosts }
\* the request ended in a failure: no reply, a non-success status, or a
\* success body the command cannot decode
FailedReq(r) ==
    \/ r.state = "failed"
    \/ r.state = "answered" /\ r.status \notin 200..299
    \/ /\ r.state = "answered"
       /\ r.url = Endpoint(<< "/compile" >>)
       /\ ~(r.reply.kind = "object" /\ Cardinality(Indices(r.reply, "ok")) = 1)
    \/ /\ r.state = "answered"
       /\ r.url = Endpoint(<< "/login" >>)
       /\ r.reply.kind # "object"
    \/ /\ r.state = "answered"
       /\ r.method = "GET"
       /\ r.reply.kind \notin {"object", "array"}
\* the lines of this invocation that report an error
ErrorLines ==
    { j \in 1..Len(out) :
        /\ out[j].stream = "stderr"
        /\ out[j].msg.step # "Uploading module: "
        /\ out[j].msg.text # Raw("Ok") }

\* C14: an invocation sends at most two requests, no endpoint twice, and when
\* two then POST /compile first and the hosts request second; a request that
\* failed (no reply, non-success status, undecodable body) is the last one and
\* the invocation has ended; an invocation that failed at any step (credential,
\* file, transport, status, decode) has no request in flight, exit code 1 and
\* exactly one error line, its last line; otherwise there is no error line.
C14_NoRetry ==
    /\ Len(reqs) <= 2
    /\ \A i, j \in 1..Len(reqs) : reqs[i].url = reqs[j].url => i = j
    /\ Len(reqs) = 2 =>
          /\ cmd.op \in ConfigOps
          /\ reqs[1].url = Endpoint(<< "/compile" >>)
          /\ reqs[2].url \in HostsEndpoints
    /\ \A i \in 1..Len(reqs) :
          /\ reqs[i].state = "inflight" => (i = Len(reqs) /\ pc # "exit")
          /\ FailedReq(reqs[i]) => (i = Len(reqs) /\ pc = "exit" /\ ~result.ok)
    /\ IF pc = "exit" /\ runs > 0 /\ ~result.ok
       THEN /\ exit_code = 1
            /\ ErrorLines = {Len(out)}
            /\ out[Len(out)].msg = result.msg
       ELSE ErrorLines = {}

\* C14 witness: host:create uploaded the module, then the hosts request got no
\* reply: two requests, one error, no second try
C14_Witness ==
    /\ cmd.op = "create"
    /\ pc = "exit"
    /\ Len(reqs) = 2
    /\ reqs[1].state = "answered"
    /\ reqs[2].state = "failed"
    /\ result.kind = "TransportError"
    /\ ErrorLines = {2}

(***************************************************************************)
(* Claims about process termination (under SpecKill).                      *)
(***************************************************************************)
\* the stored password is a complete entry: a token together with its expires_at
CompleteEntry(stored) ==
    \E token \in Tokens, e \in Times : Holds(stored, token, e)
\* the server has carried out a request of this invocation that changes remote
\* state: a POST /compile or a POST to the hosts endpoint answered with success
RemoteChanged ==
    \E i \in 1..Len(reqs) :
        /\ reqs[i].method = "POST"
        /\ reqs[i].url \in { Endpoint(<< "/compile" >>) } \cup HostsEndpoints
        /\ reqs[i].state = "answered"
        /\ reqs[i].status \in 200..299

\* C19 (as claimed): after a termination every entry is its value from before
\* the operation or a complete new entry, and the interrupted operation has
\* left no local and no remote change behind.
C19_TerminationLeavesNothing ==
    (runs > 0 /\ result = Killed) =>
        /\ \A k \in Keys : keyring[k] = kr0[k] \/ CompleteEntry(keyring[k])
        /\ cmd.op # "login" => keyring = kr0
        /\ ~RemoteChanged

\* C19 (amended): a termination leaves no partial write in the store: every
\* entry is its value from before the operation, or, under the key of a login
\* whose reply was accepted, the complete new entry of that reply; upload,
\* host:create, host:update and host:get leave the store as it was; the
\* request in flight, if any, is the last one and stays unanswered; every
\* earlier request was answered with success, and what it did remotely stays.
C19_NoPartialWrite ==
    /\ \A k \in Keys : keyring[k] = NoBody \/ CompleteEntry(keyring[k])
    /\ (runs > 0 /\ result = Killed) =>
          /\ \A k \in Keys :
                \/ keyring[k] = kr0[k]
                \/ /\ cmd.op = "login"
                   /\ k = cmd.key
                   /\ reqs[1].state = "answered"
                   /\ \E token \in Tokens, ttl \in Ttls, n \in 0..now :
                         /\ reqs[1].reply =
                               Obj(<< JStr("access_token", token), JNum("expires_in", ttl) >>)
                         /\ Holds(keyring[k], token, n + ttl)
          /\ cmd.op # "login" => keyring = kr0
          /\ exit_code = -1
          /\ ErrorLines = {}
          /\ \A i \in 1..Len(reqs) :
                IF reqs[i].state = "inflight" THEN i = Len(reqs)
                ELSE reqs[i].state = "answered" /\ reqs[i].status \in 200..299

\* C19 witness: a login was terminated after keyring.set: the key holds the
\* complete new entry in place of the old one
C19_Witness ==
    /\ result = Killed
    /\ cmd.op = "login"
    /\ TokenOf(kr0[cmd.key]) = "tokA"
    /\ \E e \in Times : Holds(keyring[cmd.key], "tokB", e)

(***************************************************************************)
(* Claims about the payloads (under SpecDeploy).                           *)
(***************************************************************************)
MemberNames(body) == { body.members[j].name : j \in 1..Len(body.members) }
\* the member of the payload under the name (the payload has exactly one)
MemberOf(body, name) == body.members[CHOOSE j \in Indices(body, name) : TRUE]
\* the module id the payload has to carry: the id POST /compile answered for a
\* local file, the argument itself otherwise
ResolvedModule ==
    IF LocalModule THEN { reqs[1].reply.members[j].s : j \in Indices(reqs[1].reply, "ok") }
    ELSE {cmd.module.v}

\* C15: the payload of the hosts request is a JSON object without null and
\* without repeated member; its members are exactly: host and customer_id for
\* host:create, module iff a module argument was given (its value the resolved
\* id), function iff a function argument was given, env iff at least one -e
\* argument was given (its value the map of the entries).
C15_OnlyPresentFields ==
    \A i \in HostsReqs :
        LET body == reqs[i].body
        IN  /\ body.kind = "object"
            /\ \A j \in 1..Len(body.members) : body.members[j].ty # "null"
            /\ \A n \in MemberNames(body) : Cardinality(Indices(body, n)) = 1
            /\ MemberNames(body) =
                  (IF cmd.op = "create" THEN {"host", "customer_id"} ELSE {})
                    \cup (IF cmd.module.some THEN {"module"} ELSE {})
                    \cup (IF cmd.function.some THEN {"function"} ELSE {})
                    \cup (IF cmd.env # << >> THEN {"env"} ELSE {})
            /\ cmd.op = "create" =>
                  /\ MemberOf(body, "host") = JStr("host", cmd.host)
                  /\ MemberOf(body, "customer_id") = JStr("customer_id", cmd.customer_id)
            /\ cmd.module.some =>
                  /\ MemberOf(body, "module").ty = "string"
                  /\ ResolvedModule = {MemberOf(body, "module").s}
            /\ cmd.function.some =>
                  MemberOf(body, "function") = JStr("function", cmd.function.v)
            /\ cmd.env # << >> =>
                  /\ MemberOf(body, "env").ty = "object"
                  /\ MemberOf(body, "env").obj = { cmd.env[k] : k \in 1..Len(cmd.env) }

\* C15 witness: host:create myhost cust123 --module ./app.wasm --env FOO=bar
\* with upload id m_42 sent {host, customer_id, module: "m_42", env: {FOO: "bar"}}
C15_Witness ==
    /\ cmd.op = "create"
    /\ cmd.module = Some("./app.wasm")
    /\ Len(reqs) = 2
    /\ reqs[1].reply = Obj(<< JStr("ok", "m_42") >>)
    /\ reqs[2].body =
          Obj(<< JStr("host", "myhost"), JStr("customer_id", "cust123"),
                 JStr("module", "m_42"),
                 JObj("env", { EnvEntry(<< "FOO" >>, "string", << "bar" >>) }) >>)

\* C20: in host:create / host:update with a local module file the
\* RequestBuilder of the hosts request, with the token read when the
\* invocation began, exists before do_upload reads the credential and before
\* POST /compile is sent; the hosts request carries that token, whatever the
\* store holds when it is sent; and once POST /compile is answered with a
\* module id the hosts request is sent, the entry expired or removed or not.
C20_TokenReadBeforeUpload ==
    (cmd.op \in ConfigOps /\ LocalModule /\ runs > 0) =>
        /\ (UploadCalls # {} \/ CompileReqs # {} \/ HostsReqs # {}) =>
              /\ builder.set
              /\ builder.auth.scheme = "Bearer"
              /\ builder.auth.cred = TokenOf(kr0[cmd.key])
              /\ kr0[cmd.key] # NoBody
        /\ \A i \in HostsReqs :
              /\ reqs[i].auth.scheme = "Bearer"
              /\ reqs[i].auth.cred = TokenOf(kr0[cmd.key])
        /\ \A i \in CompileReqs :
              (reqs[i].state = "answered" /\ reqs[i].status \in 200..299
                 /\ reqs[i].reply \in CompileBodies) => HostsReqs = {i + 1}

\* C20 witness: a logout of another process removed the entry while the upload
\* was in flight, and the hosts request went out with the token read before
C20_Witness ==
    /\ cmd.op \in ConfigOps
    /\ LocalModule
    /\ HostsReqs = {2}
    /\ reqs[1].fresh
    /\ ~reqs[2].fresh
    /\ keyring[cmd.key] = NoBody
    /\ reqs[2].auth.cred = "tokA"

(***************************************************************************)
(* Claims about the error normaliser (under SpecNormalizer).               *)
(***************************************************************************)
Normalized == pc = "handle_error" /\ reqs # << >>
\* the body is a JSON object with a string "error" member
HasStringError(body) ==
    /\ body.kind = "object"
    /\ \E i \in Indices(body, "error") : body.members[i].ty = "string"
\* the body is what ErrorResponse deserialises from: a JSON object whose only
\* "error" member is a string, or a JSON array of exactly one string
IsErrorResponse(body) ==
    \/ /\ body.kind = "object"
       /\ Cardinality(Indices(body, "error")) = 1
       /\ \A i \in Indices(body, "error") : body.members[i].ty = "string"
    \/ /\ body.kind = "array"
       /\ Len(body.members) = 1
       /\ body.members[1].ty = "string"
ErrorStringOf(body) ==
    IF body.kind = "array" THEN body.members[1].s
    ELSE body.members[CHOOSE i \in Indices(body, "error") : TRUE].s
Failed(step, text) ==
    /\ ~result.ok
    /\ result.kind = "ApiError"
    /\ result.msg = [step |-> step, text |-> text]

\* C8 (as claimed): a success status gives success whatever the body; a
\* non-success status with a JSON object holding a string "error" gives
\* prefix + that string; a non-success status with any other body gives
\* prefix + the raw body.
C8_AsClaimed ==
    Normalized =>
        LET status == reqs[1].status
            body == reqs[1].reply
            step == out[1].msg.step
        IN  /\ status \in 200..299 => result = Ok("")
            /\ (status \notin 200..299 /\ HasStringError(body)) =>
                  \E i \in Indices(body, "error") :
                      body.members[i].ty = "string" /\ Failed(step, Raw(body.members[i].s))
            /\ (status \notin 200..299 /\ ~HasStringError(body)) => Failed(step, body)

\* C8 (amended): a success status gives success whatever the body; a
\* non-success status with a body that deserialises as ErrorResponse (a JSON
\* object whose only "error" member is a string, other members ignored, or a
\* JSON array of exactly one string) gives prefix + that string; a non-success
\* status with any other body gives prefix + the raw body.
C8_Normalizer ==
    Normalized =>
        LET status == reqs[1].status
            body == reqs[1].reply
            step == out[1].msg.step
        IN  /\ status \in 200..299 => result = Ok("")
            /\ (status \notin 200..299 /\ IsErrorResponse(body)) =>
                  Failed(step, Raw(ErrorStringOf(body)))
            /\ (status \notin 200..299 /\ ~IsErrorResponse(body)) => Failed(step, body)

\* C8 witness: status 400 with the body ["bad host"] under the login prefix
C8_Witness ==
    /\ Normalized
    /\ reqs[1].status = 400
    /\ reqs[1].reply = Arr(<< JStr("", "bad host") >>)
    /\ Failed("Login error: ", Raw("bad host"))

====
